---------------------------- MODULE Spec2Model ----------------------------
(***************************************************************************)
(* Bloch Sphere Visualizer (src/app.py): a Streamlit script that builds a  *)
(* single-qubit state, validates it, applies one gate or a stored gate     *)
(* sequence, and projects the result to a Bloch vector.                    *)
(*                                                                         *)
(* Every user interaction reruns the whole script; one action of this      *)
(* model is one complete run.  st.session_state.gate_sequence is the only  *)
(* value that survives from one run to the next.                           *)
(***************************************************************************)
EXTENDS Integers, Sequences, FiniteSets, TLC

(***************************************************************************)
(* NUMBERS.  Amplitudes and matrix entries are complex numbers.  They are  *)
(* modelled exactly, as elements of Q(w) with w = exp(i*pi/4): a number is *)
(* (c[1] + c[2]*w + c[3]*w^2 + c[4]*w^3) / 10^e with integer c and e >= 0. *)
(* i is w^2 and sqrt(2) is w - w^3, so every gate matrix of the program    *)
(* and every decimal a user can type is such a number.  The            *)
(* representation is kept canonical (e is as small as possible), so two    *)
(* numbers are equal exactly when their records are.                       *)
(***************************************************************************)
RECURSIVE Pow10(_)
Pow10(k) == IF k = 0 THEN 1 ELSE 10 * Pow10(k - 1)

RECURSIVE Reduce(_, _)
Reduce(c, e) ==
    IF e > 0 /\ \A i \in 1..4 : c[i] % 10 = 0
    THEN Reduce(<<c[1] \div 10, c[2] \div 10, c[3] \div 10, c[4] \div 10>>,
                e - 1)
    ELSE [c |-> c, e |-> e]

Num(c0, c1, c2, c3, e) == Reduce(<<c0, c1, c2, c3>>, e)

Zero == Num(0, 0, 0, 0, 0)
One == Num(1, 0, 0, 0, 0)
Two == Num(2, 0, 0, 0, 0)
Half == Num(5, 0, 0, 0, 1)
ImagUnit == Num(0, 0, 1, 0, 0)
Sqrt2 == Num(0, 1, 0, -1, 0)
InvSqrt2 == Num(0, 5, 0, -5, 1)

Lift(x, e) ==
    LET p == Pow10(e - x.e)
    IN  <<x.c[1] * p, x.c[2] * p, x.c[3] * p, x.c[4] * p>>

NAdd(x, y) ==
    LET e == IF x.e > y.e THEN x.e ELSE y.e
        a == Lift(x, e)
        b == Lift(y, e)
    IN  Reduce(<<a[1] + b[1], a[2] + b[2], a[3] + b[3], a[4] + b[4]>>, e)

NNeg(x) ==
    [c |-> <<0 - x.c[1], 0 - x.c[2], 0 - x.c[3], 0 - x.c[4]>>, e |-> x.e]

NSub(x, y) == NAdd(x, NNeg(y))

\* w^4 = -1
NMul(x, y) ==
    LET a == x.c
        b == y.c
    IN  Reduce(<<a[1]*b[1] - a[2]*b[4] - a[3]*b[3] - a[4]*b[2],
                 a[1]*b[2] + a[2]*b[1] - a[3]*b[4] - a[4]*b[3],
                 a[1]*b[3] + a[2]*b[2] + a[3]*b[1] - a[4]*b[4],
                 a[1]*b[4] + a[2]*b[3] + a[3]*b[2] + a[4]*b[1]>>,
               x.e + y.e)

\* complex conjugation sends w to 1/w = -w^3
NConj(x) == [c |-> <<x.c[1], 0 - x.c[4], 0 - x.c[3], 0 - x.c[2]>>, e |-> x.e]

\* np.real, np.imag
NReal(x) == NMul(Half, NAdd(x, NConj(x)))
NImag(x) == NMul(NMul(Half, NNeg(ImagUnit)), NSub(x, NConj(x)))

\* w^k for any integer k
RECURSIVE WPow(_)
WPow(k) ==
    IF k < 0 THEN WPow(k + 8)
    ELSE IF k >= 4 THEN NNeg(WPow(k - 4))
    ELSE [c |-> <<IF k = 0 THEN 1 ELSE 0, IF k = 1 THEN 1 ELSE 0,
                  IF k = 2 THEN 1 ELSE 0, IF k = 3 THEN 1 ELSE 0>>,
          e |-> 0]

\* cos(k*pi/4) and sin(k*pi/4)
CosQ(k) == NMul(Half, NAdd(WPow(k), WPow(0 - k)))
SinQ(k) == NMul(NMul(Half, NNeg(ImagUnit)), NSub(WPow(k), WPow(0 - k)))

(***************************************************************************)
(* WIDE DECIMALS.  The validator compares squares of entries against       *)
(* tolerances of 1e-8 and 1e-10; those products do not fit a machine       *)
(* integer, so the comparisons are evaluated on unbounded decimals: a      *)
(* magnitude is a little-endian sequence of four-digit limbs, a decimal is *)
(* s * m / 10^e with s in {-1, 0, 1}.                                      *)
(***************************************************************************)
LimbBase == 100 * 100

RECURSIVE NatLimbs(_)
NatLimbs(n) == IF n = 0 THEN <<>> ELSE <<n % LimbBase>> \o NatLimbs(n \div LimbBase)

RECURSIVE Trim(_)
Trim(m) ==
    IF m # <<>> /\ m[Len(m)] = 0 THEN Trim(SubSeq(m, 1, Len(m) - 1)) ELSE m

Limb(m, i) == IF i <= Len(m) THEN m[i] ELSE 0

RECURSIVE MagAddFrom(_, _, _, _)
MagAddFrom(a, b, i, carry) ==
    IF i > Len(a) /\ i > Len(b)
    THEN IF carry = 0 THEN <<>> ELSE <<carry>>
    ELSE LET s == Limb(a, i) + Limb(b, i) + carry
         IN  <<s % LimbBase>> \o MagAddFrom(a, b, i + 1, s \div LimbBase)

MagAdd(a, b) == MagAddFrom(a, b, 1, 0)

\* a - b for a >= b
RECURSIVE MagSubFrom(_, _, _, _)
MagSubFrom(a, b, i, borrow) ==
    IF i > Len(a) THEN <<>>
    ELSE LET d == Limb(a, i) - Limb(b, i) - borrow
         IN  IF d < 0
             THEN <<d + LimbBase>> \o MagSubFrom(a, b, i + 1, 1)
             ELSE <<d>> \o MagSubFrom(a, b, i + 1, 0)

MagSub(a, b) == Trim(MagSubFrom(a, b, 1, 0))

RECURSIVE MagCmpFrom(_, _, _)
MagCmpFrom(a, b, i) ==
    IF i = 0 THEN 0
    ELSE IF a[i] # b[i] THEN (IF a[i] < b[i] THEN -1 ELSE 1)
    ELSE MagCmpFrom(a, b, i - 1)

MagCmp(a, b) ==
    IF Len(a) # Len(b) THEN (IF Len(a) < Len(b) THEN -1 ELSE 1)
    ELSE MagCmpFrom(a, b, Len(a))

\* a * k for 0 <= k < LimbBase
RECURSIVE MagScaleFrom(_, _, _, _)
MagScaleFrom(a, k, i, carry) ==
    IF i > Len(a) THEN NatLimbs(carry)
    ELSE LET p == a[i] * k + carry
         IN  <<p % LimbBase>> \o MagScaleFrom(a, k, i + 1, p \div LimbBase)

MagScale(a, k) == Trim(MagScaleFrom(a, k, 1, 0))

MagShift(m) == IF m = <<>> THEN m ELSE <<0>> \o m

RECURSIVE MagMul(_, _)
MagMul(a, b) ==
    IF a = <<>> \/ b = <<>> THEN <<>>
    ELSE MagAdd(MagScale(a, b[1]), MagShift(MagMul(a, Tail(b))))

RECURSIVE MagPow10(_, _)
MagPow10(m, k) ==
    IF k = 0 THEN m
    ELSE IF k >= 4 THEN MagPow10(MagShift(m), k - 4)
    ELSE MagScale(m, Pow10(k))

Dec(n, e) ==
    [s |-> IF n > 0 THEN 1 ELSE IF n < 0 THEN -1 ELSE 0,
     m |-> NatLimbs(IF n < 0 THEN 0 - n ELSE n),
     e |-> e]

DNeg(x) == [x EXCEPT !.s = 0 - x.s]

DAdd(x, y) ==
    LET e == IF x.e > y.e THEN x.e ELSE y.e
        a == MagPow10(x.m, e - x.e)
        b == MagPow10(y.m, e - y.e)
        c == MagCmp(a, b)
    IN  IF x.s = 0 THEN [s |-> y.s, m |-> b, e |-> e]
        ELSE IF y.s = 0 THEN [s |-> x.s, m |-> a, e |-> e]
        ELSE IF x.s = y.s THEN [s |-> x.s, m |-> MagAdd(a, b), e |-> e]
        ELSE IF c = 0 THEN [s |-> 0, m |-> <<>>, e |-> e]
        ELSE IF c > 0 THEN [s |-> x.s, m |-> MagSub(a, b), e |-> e]
        ELSE [s |-> y.s, m |-> MagSub(b, a), e |-> e]

DSub(x, y) == DAdd(x, DNeg(y))

DMul(x, y) == [s |-> x.s * y.s, m |-> MagMul(x.m, y.m), e |-> x.e + y.e]

DLeq(x, y) == DSub(y, x).s >= 0

DLess(x, y) == DSub(y, x).s > 0

\* real and imaginary part of a Gaussian rational, and its squared modulus
DRe(x) == Dec(x.c[1], x.e)
DIm(x) == Dec(x.c[3], x.e)
DAbsSq(x) == DAdd(DMul(DRe(x), DRe(x)), DMul(DIm(x), DIm(x)))

(***************************************************************************)
(* LINEAR ALGEBRA on 2-vectors <<a, b>> and 2x2 matrices                   *)
(* <<<<m00, m01>>, <<m10, m11>>>> (numpy's @, .conj().T, np.outer).        *)
(***************************************************************************)
Dot(a1, b1, a2, b2) == NAdd(NMul(a1, b1), NMul(a2, b2))

MatMul(A, B) ==
    <<<<Dot(A[1][1], B[1][1], A[1][2], B[2][1]),
        Dot(A[1][1], B[1][2], A[1][2], B[2][2])>>,
      <<Dot(A[2][1], B[1][1], A[2][2], B[2][1]),
        Dot(A[2][1], B[1][2], A[2][2], B[2][2])>>>>

MatVec(A, v) ==
    <<Dot(A[1][1], v[1], A[1][2], v[2]), Dot(A[2][1], v[1], A[2][2], v[2])>>

Dagger(A) ==
    <<<<NConj(A[1][1]), NConj(A[2][1])>>, <<NConj(A[1][2]), NConj(A[2][2])>>>>

Outer(v) ==
    <<<<NMul(v[1], NConj(v[1])), NMul(v[1], NConj(v[2]))>>,
      <<NMul(v[2], NConj(v[1])), NMul(v[2], NConj(v[2]))>>>>

Identity2 == <<<<One, Zero>>, <<Zero, One>>>>

(***************************************************************************)
(* GATES.  The matrices qiskit gives to the circuit methods the script     *)
(* calls (qc.x, qc.y, ..., qc.rz).  A rotation angle is an integer count   *)
(* of quarter turns, theta = angle * pi/2 (the slider spans -2*pi..2*pi,   *)
(* that is -4..4), so that cos(theta/2) and sin(theta/2) are exact.        *)
(***************************************************************************)
\* variant: the matrix of S where X belongs
XGateAsPhase == <<<<One, Zero>>, <<Zero, ImagUnit>>>>

XGate == <<<<Zero, One>>, <<One, Zero>>>>
YGate == <<<<Zero, NNeg(ImagUnit)>>, <<ImagUnit, Zero>>>>
ZGate == <<<<One, Zero>>, <<Zero, NNeg(One)>>>>
HGate == <<<<InvSqrt2, InvSqrt2>>, <<InvSqrt2, NNeg(InvSqrt2)>>>>
SGate == <<<<One, Zero>>, <<Zero, ImagUnit>>>>
SdgGate == <<<<One, Zero>>, <<Zero, NNeg(ImagUnit)>>>>
TGate == <<<<One, Zero>>, <<Zero, WPow(1)>>>>
TdgGate == <<<<One, Zero>>, <<Zero, WPow(-1)>>>>

RXGate(k) ==
    <<<<CosQ(k), NNeg(NMul(ImagUnit, SinQ(k)))>>,
      <<NNeg(NMul(ImagUnit, SinQ(k))), CosQ(k)>>>>
RYGate(k) == <<<<CosQ(k), NNeg(SinQ(k))>>, <<SinQ(k), CosQ(k)>>>>
RZGate(k) == <<<<WPow(0 - k), Zero>>, <<Zero, WPow(k)>>>>

(***************************************************************************)
(* STATE OBJECTS.  Python values the variable `state` can hold: None, a    *)
(* qiskit Statevector, a DensityMatrix, or (after `op @ state`) an         *)
(* Operator.                                                               *)
(***************************************************************************)
None == [kind |-> "None", data |-> <<>>]
Statevector(v) == [kind |-> "Statevector", data |-> v]
DensityMatrix(m) == [kind |-> "DensityMatrix", data |-> m]
Operator(m) == [kind |-> "Operator", data |-> m]

\* Statevector.evolve / DensityMatrix.evolve with the circuit's unitary U
evolve(st, U) ==
    IF st.kind = "Statevector" THEN Statevector(MatVec(U, st.data))
    ELSE DensityMatrix(MatMul(MatMul(U, st.data), Dagger(U)))

\* Statevector.to_operator (the projector), DensityMatrix.to_operator
to_operator(st) ==
    IF st.kind = "Statevector" THEN Operator(Outer(st.data))
    ELSE Operator(st.data)

\* Operator.__matmul__: op @ other is op.dot(other), which first turns a
\* non-Operator `other` into an Operator and returns the matrix product
OpMatmul(op, other) == Operator(MatMul(op.data, to_operator(other).data))

\* get_bloch_vector: a list [x, y, z], or None when neither isinstance
\* test matches
NoVector == <<>>
get_bloch_vector(st) ==
    IF st.kind = "Statevector" THEN
        LET a == st.data[1]
            b == st.data[2]
            ab == NMul(NConj(a), b)
        IN  <<NMul(Two, NReal(ab)),
              NMul(Two, NImag(ab)),
              NSub(NMul(a, NConj(a)), NMul(b, NConj(b)))>>
    ELSE IF st.kind = "DensityMatrix" THEN
        LET rho == st.data
        IN  <<NMul(Two, NReal(rho[1][2])),
              NMul(Two, NImag(rho[2][1])),
              NReal(NSub(rho[1][1], rho[2][2]))>>
    ELSE NoVector

(***************************************************************************)
(* TOLERANT COMPARISON.  np.allclose(a, b) with numpy's default            *)
(* tolerances: every entry satisfies |a - b| <= atol + rtol * |b|, with    *)
(* the complex modulus.  For D = |a - b| and B = |b| the test              *)
(* D <= atol + rtol*B is decided without square roots from D^2 and B^2:    *)
(* it holds iff D^2 <= atol^2, or L <= 0, or L^2 <= 4*atol^2*D^2, where    *)
(* L = D^2 + atol^2 - rtol^2*B^2.                                          *)
(***************************************************************************)
\* variant: a relative tolerance of 1e-3
RtolLoose == Dec(1, 3)

rtol == Dec(1, 5)
atol == Dec(1, 8)
RtolSq == DMul(rtol, rtol)
AtolSq == DMul(atol, atol)
FourAtolSq == DMul(Dec(4, 0), AtolSq)

WithinBound(d2, L) ==
    \/ DLeq(d2, AtolSq)
    \/ L.s <= 0
    \/ DLeq(DMul(L, L), DMul(FourAtolSq, d2))

CloseSquares(d2, b2) ==
    WithinBound(d2, DSub(DAdd(d2, AtolSq), DMul(RtolSq, b2)))

IsClose(a, b) == a = b \/ CloseSquares(DAbsSq(NSub(a, b)), DAbsSq(b))

AllClose(A, B) == \A i \in 1..2 : \A j \in 1..2 : IsClose(A[i][j], B[i][j])

(***************************************************************************)
(* np.linalg.eigvalsh(matrix) reads only the lower triangle of its         *)
(* argument (UPLO = 'L') and the real parts of the diagonal: it returns    *)
(* the eigenvalues of the Hermitian matrix [[a, conj(b)], [b, d]] with     *)
(* a = Re m00, b = m10, d = Re m11, which are                              *)
(* (a + d)/2 -+ sqrt(((a - d)/2)^2 + |b|^2).  Both are >= floor iff        *)
(* a + d - 2*floor >= 0 and (a + d - 2*floor)^2 >= (a - d)^2 + 4*|b|^2.    *)
(***************************************************************************)
EigvalshAllAtLeast(matrix, floor) ==
    LET a == DRe(matrix[1][1])
        d == DRe(matrix[2][2])
        b2 == DAbsSq(matrix[2][1])
        s == DSub(DAdd(a, d), DMul(Dec(2, 0), floor))
        r == DSub(a, d)
    IN  /\ s.s >= 0
        /\ DLeq(DAdd(DMul(r, r), DMul(Dec(4, 0), b2)), DMul(s, s))

\* variant: eigenvalues accepted down to -1
PsdFloorLoose == Dec(-1, 0)

PsdFloor == Dec(-1, 10)

(***************************************************************************)
(* USER INPUT.  complex(text) of the text a user typed: the value, or a    *)
(* ValueError.  The table lists the texts the model lets the user type.    *)
(***************************************************************************)
Parsed(v) == [ok |-> TRUE, v |-> v]
ValueError == [ok |-> FALSE, v |-> Zero]

ParseComplex(t) ==
    CASE t = "0" -> Parsed(Zero)
      [] t = "1" -> Parsed(One)
      [] t = "-1" -> Parsed(NNeg(One))
      [] t = "5" -> Parsed(Num(5, 0, 0, 0, 0))
      [] t = "0.5" -> Parsed(Half)
      [] t = "-0.5" -> Parsed(NNeg(Half))
      [] t = "1.5" -> Parsed(Num(15, 0, 0, 0, 1))
      [] t = "0.25" -> Parsed(Num(25, 0, 0, 0, 2))
      [] t = "0.75" -> Parsed(Num(75, 0, 0, 0, 2))
      [] t = "1j" -> Parsed(ImagUnit)
      [] t = "-1j" -> Parsed(NNeg(ImagUnit))
      [] t = "0.5j" -> Parsed(Num(0, 0, 5, 0, 1))
      [] t = "-0.5j" -> Parsed(Num(0, 0, -5, 0, 1))
      [] t = "0.25j" -> Parsed(Num(0, 0, 25, 0, 2))
      [] t = "-0.25j" -> Parsed(Num(0, 0, -25, 0, 2))
      [] t = "0.5+0.5j" -> Parsed(Num(5, 0, 5, 0, 1))
      [] t = "0.250001" -> Parsed(Num(250001, 0, 0, 0, 6))
      [] t = "1.00001" -> Parsed(Num(100001, 0, 0, 0, 5))
      [] t = "1.00002" -> Parsed(Num(100002, 0, 0, 0, 5))
      [] t = "0.50001" -> Parsed(Num(50001, 0, 0, 0, 5))
      [] t = "0.500001" -> Parsed(Num(500001, 0, 0, 0, 6))
      [] t = "-0.00001" -> Parsed(Num(-1, 0, 0, 0, 5))
      [] t = "0.000001j" -> Parsed(Num(0, 0, 1, 0, 6))
      [] OTHER -> ValueError

ParseMatrix(texts) ==
    LET p == <<ParseComplex(texts[1]), ParseComplex(texts[2]),
               ParseComplex(texts[3]), ParseComplex(texts[4])>>
    IN  IF \A i \in 1..4 : p[i].ok
        THEN [ok |-> TRUE, m |-> <<<<p[1].v, p[2].v>>, <<p[3].v, p[4].v>>>>]
        ELSE [ok |-> FALSE, m |-> <<>>]

\* Step 1 widgets: the input type and, per type, the label, the four
\* number inputs (a_real, a_imag, b_real, b_imag) and the four texts
\* (rho00, rho01, rho10, rho11), at their defaults when not shown
DefaultAmp == <<1, 0, 0, 0>>
DefaultRho == <<"0.5", "0.5", "0.5", "0.5">>
Predefined(label) ==
    [input_type |-> "Predefined State", label |-> label,
     amp |-> DefaultAmp, rho |-> DefaultRho]
CustomPure(amp) ==
    [input_type |-> "Custom Pure State", label |-> "|0>",
     amp |-> amp, rho |-> DefaultRho]
DensityInput(rho) ==
    [input_type |-> "Density Matrix", label |-> "|0>",
     amp |-> DefaultAmp, rho |-> rho]

Labels == {"|0>", "|1>", "|+>", "|->", "|i>", "|-i>"}

state_options(label) ==
    CASE label = "|0>" -> Statevector(<<One, Zero>>)
      [] label = "|1>" -> Statevector(<<Zero, One>>)
      [] label = "|+>" -> Statevector(<<InvSqrt2, InvSqrt2>>)
      [] label = "|->" -> Statevector(<<InvSqrt2, NNeg(InvSqrt2)>>)
      [] label = "|i>" -> Statevector(<<InvSqrt2, NMul(ImagUnit, InvSqrt2)>>)
      [] label = "|-i>" ->
            Statevector(<<InvSqrt2, NNeg(NMul(ImagUnit, InvSqrt2))>>)

(***************************************************************************)
(* np.sqrt and the division by the norm are exact on the amplitudes the    *)
(* model lets the user enter: their norm is k or k*sqrt(2) with            *)
(* k in 0..MaxRoot, and 1/k is a finite decimal.                           *)
(***************************************************************************)
MaxRoot == 5
Roots ==
    {Num(k, 0, 0, 0, 0) : k \in 0..MaxRoot}
        \cup {NMul(Num(k, 0, 0, 0, 0), Sqrt2) : k \in 1..MaxRoot}
Sqrt(x) == CHOOSE r \in Roots : NMul(r, r) = x
Recips ==
    {Num(1, 0, 0, 0, 0), Num(5, 0, 0, 0, 1), Num(25, 0, 0, 0, 2),
     Num(2, 0, 0, 0, 1), Num(125, 0, 0, 0, 3)}
Recip(r) ==
    CHOOSE z \in {NMul(y, f) : y \in Recips, f \in {One, InvSqrt2}} :
        NMul(r, z) = One
NDiv(x, r) == NMul(x, Recip(r))

Complex(re, im) == Num(re, 0, im, 0, 0)

(***************************************************************************)
(* STEP 1 (lines 26-90): the initial state and the errors shown.           *)
(***************************************************************************)
\* lines 49-56
CustomPureState(amp) ==
    LET a == Complex(amp[1], amp[2])
        b == Complex(amp[3], amp[4])
        norm == Sqrt(NAdd(NMul(a, NConj(a)), NMul(b, NConj(b))))
    IN  IF norm = Zero
        THEN [state |-> None, errors |-> {"Vector cannot be zero."}]
        ELSE [state |-> Statevector(<<NDiv(a, norm), NDiv(b, norm)>>),
              errors |-> {}]

\* lines 69-73
is_hermitian(matrix) == AllClose(matrix, Dagger(matrix))
trace(matrix) == NAdd(matrix[1][1], matrix[2][2])
is_trace_one(matrix) == IsClose(trace(matrix), One)
is_positive_semidefinite(matrix) == EigvalshAllAtLeast(matrix, PsdFloor)

\* lines 75-80: three independent ifs, each reporting one failed check
ValidationErrors(hermitian, trace_one, psd) ==
    (IF ~hermitian THEN {"Matrix is not Hermitian"} ELSE {})
        \cup (IF ~trace_one THEN {"Trace is not 1"} ELSE {})
        \cup (IF ~psd THEN {"Matrix is not positive semi-definite"} ELSE {})

\* variant: the state is built without looking at the eigenvalues
ValidatedStateNoPsd(hermitian, trace_one, psd, matrix) ==
    IF hermitian /\ trace_one THEN DensityMatrix(matrix) ELSE None

\* lines 82-86
ValidatedState(hermitian, trace_one, psd, matrix) ==
    IF hermitian /\ trace_one /\ psd THEN DensityMatrix(matrix) ELSE None

\* lines 75-86: the reports and the state, given the three verdicts
Verdict(hermitian, trace_one, psd, matrix) ==
    [state |-> ValidatedState(hermitian, trace_one, psd, matrix),
     errors |-> ValidationErrors(hermitian, trace_one, psd)]

\* lines 67-90, given the parsed fields
Validate(p) ==
    IF p.ok
    THEN Verdict(is_hermitian(p.m), is_trace_one(p.m),
                 is_positive_semidefinite(p.m), p.m)
    ELSE [state |-> None, errors |-> {"Invalid input"}]

\* lines 61-90
DensityMatrixState(rho) == Validate(ParseMatrix(rho))

\* lines 30-90
InitialState(inp) ==
    CASE inp.input_type = "Predefined State" ->
            [state |-> state_options(inp.label), errors |-> {}]
      [] inp.input_type = "Custom Pure State" -> CustomPureState(inp.amp)
      [] inp.input_type = "Density Matrix" -> DensityMatrixState(inp.rho)

(***************************************************************************)
(* STEP 2 (lines 106-234).  The gate widgets: gate is the selectbox        *)
(* value, angle the slider value (0 unless a rotation is selected),        *)
(* custom the four texts U00, U01, U10, U11.  A parameter p of a stored    *)
(* sequence entry (g, p) is None, a float or a matrix.                     *)
(***************************************************************************)
Gates ==
    {"X", "Y", "Z", "H", "S", "Sdg", "T", "Tdg", "RX", "RY", "RZ",
     "Custom Unitary"}
Rotations == {"RX", "RY", "RZ"}
FixedGates == Gates \ (Rotations \cup {"Custom Unitary"})

PNone == [t |-> "None", angle |-> 0, matrix |-> <<>>]
PFloat(a) == [t |-> "float", angle |-> a, matrix |-> <<>>]
PMatrix(m) == [t |-> "ndarray", angle |-> 0, matrix |-> m]

\* lines 117-128 and 168-179: custom_matrix stays None unless the texts
\* parse and the matrix passes the unitarity check
CustomMatrix(texts) ==
    LET p == ParseMatrix(texts)
    IN  IF p.ok /\ AllClose(MatMul(Dagger(p.m), p.m), Identity2)
        THEN PMatrix(p.m)
        ELSE PNone

\* A QuantumCircuit(1) holding at most one gate is modelled by its
\* unitary; qc = None by NoCircuit.
NoCircuit == [none |-> TRUE, u |-> <<>>]
Circuit(u) == [none |-> FALSE, u |-> u]

\* lines 131-146: the dispatch of single-gate mode
SingleCircuit(g, a, cm) ==
    CASE g = "X" -> Circuit(XGate)
      [] g = "Y" -> Circuit(YGate)
      [] g = "Z" -> Circuit(ZGate)
      [] g = "H" -> Circuit(HGate)
      [] g = "S" -> Circuit(SGate)
      [] g = "Sdg" -> Circuit(SdgGate)
      [] g = "T" -> Circuit(TGate)
      [] g = "Tdg" -> Circuit(TdgGate)
      [] g = "RX" -> Circuit(RXGate(a))
      [] g = "RY" -> Circuit(RYGate(a))
      [] g = "RZ" -> Circuit(RZGate(a))
      [] g = "Custom Unitary" /\ cm.t # "None" -> NoCircuit
      [] OTHER -> Circuit(Identity2)

\* The outcome of the evolution part of a run: the final object, and the
\* exception that ended the run, if any.
Outcome(val, exc) == [val |-> val, exc |-> exc]

\* lines 130-149: "Apply Gate" pressed
ApplySingle(st, g, a, cm) ==
    LET qc == SingleCircuit(g, a, cm)
    IN  IF qc.none
        THEN Outcome(OpMatmul(Operator(cm.matrix), st), "")
        ELSE Outcome(evolve(st, qc.u), "")

\* lines 184-189: the entry "Add Gate" appends
NewEntry(g, a, cm) ==
    IF g \in Rotations THEN <<g, PFloat(a)>>
    ELSE IF g = "Custom Unitary" /\ cm.t # "None" THEN <<"Custom", cm>>
    ELSE <<g, PNone>>

AddEntry(seq, g, a, cm) == Append(seq, NewEntry(g, a, cm))

\* variant: pop(0), the first entry goes
UndoFirst(seq) == IF seq # <<>> THEN Tail(seq) ELSE seq

\* lines 191-192
UndoLast(seq) == IF seq # <<>> THEN SubSeq(seq, 1, Len(seq) - 1) ELSE seq

\* variant: the loop's dispatch with qc.s where qc.sdg belongs
SeqCircuitSlip(g, p) ==
    IF g = "Custom" THEN NoCircuit
    ELSE IF g = "Sdg" THEN Circuit(SGate)
    ELSE SingleCircuit(g, p.angle, PNone)

\* lines 210-225: the dispatch of the sequence loop
SeqCircuit(g, p) ==
    CASE g = "X" -> Circuit(XGate)
      [] g = "Y" -> Circuit(YGate)
      [] g = "Z" -> Circuit(ZGate)
      [] g = "H" -> Circuit(HGate)
      [] g = "S" -> Circuit(SGate)
      [] g = "Sdg" -> Circuit(SdgGate)
      [] g = "T" -> Circuit(TGate)
      [] g = "Tdg" -> Circuit(TdgGate)
      [] g = "RX" -> Circuit(RXGate(p.angle))
      [] g = "RY" -> Circuit(RYGate(p.angle))
      [] g = "RZ" -> Circuit(RZGate(p.angle))
      [] g = "Custom" -> NoCircuit
      [] OTHER -> Circuit(Identity2)

\* lines 210-228: one iteration of the loop body on state_applied.  An
\* Operator has no evolve method: the call raises AttributeError.
LoopBody(acc, entry) ==
    LET qc == SeqCircuit(entry[1], entry[2])
    IN  IF acc.exc # "" THEN acc
        ELSE IF qc.none
        THEN Outcome(OpMatmul(Operator(entry[2].matrix), acc.val), "")
        ELSE IF acc.val.kind = "Operator"
        THEN Outcome(acc.val, "AttributeError")
        ELSE Outcome(evolve(acc.val, qc.u), "")

\* lines 208-228: for g, p in gate_sequence, from index i on
RECURSIVE LoopFrom(_, _, _)
LoopFrom(acc, seq, i) ==
    IF i > Len(seq) THEN acc
    ELSE LoopFrom(LoopBody(acc, seq[i]), seq, i + 1)

\* variant: the loop run over reversed(gate_sequence)
RECURSIVE LoopDownFrom(_, _, _)
LoopDownFrom(acc, seq, i) ==
    IF i < 1 THEN acc
    ELSE LoopDownFrom(LoopBody(acc, seq[i]), seq, i - 1)
ApplyReversed(st, seq) == LoopDownFrom(Outcome(st, ""), seq, Len(seq))

ApplySequence(st, seq) == LoopFrom(Outcome(st, ""), seq, 1)

\* lines 152 and 231: plot_bloch_vector(get_bloch_vector(final)) raises
\* a TypeError on None
Plotted(out) ==
    IF out.exc = "" /\ get_bloch_vector(out.val) = NoVector
    THEN Outcome(out.val, "TypeError")
    ELSE out

(***************************************************************************)
(* THE RUN.  One execution of the script with the widgets at (inp, m, g,   *)
(* a, texts), the button btn pressed ("" for none) and the stored          *)
(* sequence seq.  The result holds every variable's next value.  Under a   *)
(* None state the script stops before line 107: the radio is not drawn     *)
(* and Streamlit drops its value, so the next run that draws it starts     *)
(* from its first option.                                                  *)
(***************************************************************************)
\* lines 183-195: the stored sequence after the buttons of this run
StoredSequence(st, m, g, a, cm, btn, seq) ==
    IF st = None \/ m # "Test Gate Sequence" THEN seq
    ELSE IF btn = "Add Gate" THEN AddEntry(seq, g, a, cm)
    ELSE IF btn = "Undo Last Gate" THEN UndoLast(seq)
    ELSE IF btn = "Clear Gate Sequence" THEN <<>>
    ELSE seq

\* lines 129-152 and 208-231: the final object of this run
Evolved(st, m, g, a, cm, btn, seq2) ==
    IF st = None THEN Outcome(None, "")
    ELSE IF m = "Test Single Gate"
    THEN IF btn = "Apply Gate"
         THEN Plotted(ApplySingle(st, g, a, cm))
         ELSE Outcome(None, "")
    ELSE Plotted(ApplySequence(st, seq2))

\* what the run leaves on the page and in the session
Shown(init, m, cm, seq2, out) ==
    [state |-> init.state,
     mode |-> IF init.state = None THEN "Test Single Gate" ELSE m,
     errors |-> init.errors,
     bloch_initial |-> get_bloch_vector(init.state),
     custom_matrix |-> cm,
     gate_sequence |-> seq2,
     final |-> out.val,
     bloch_final |-> IF out.exc = "" THEN get_bloch_vector(out.val)
                     ELSE NoVector,
     exception |-> out.exc]

RunOn(init, m, g, a, cm, btn, seq2) ==
    Shown(init, m, cm, seq2, Evolved(init.state, m, g, a, cm, btn, seq2))

RunWith(init, m, g, a, cm, btn, seq) ==
    RunOn(init, m, g, a, cm, btn,
          StoredSequence(init.state, m, g, a, cm, btn, seq))

Run(inp, m, g, a, texts, btn, seq) ==
    RunWith(InitialState(inp), m, g, a,
            IF g = "Custom Unitary" THEN CustomMatrix(texts) ELSE PNone,
            btn, seq)

VARIABLES
    input,          \* the Step 1 widgets
    mode,           \* the Step 2 radio
    gate,           \* the gate selectbox
    angle,          \* the rotation slider
    custom_matrix,  \* the validated custom matrix, or None
    button,         \* the button pressed in this run, "" for none
    gate_sequence,  \* st.session_state.gate_sequence
    state,          \* the initial state object, or None
    errors,         \* the st.error messages of Step 1
    bloch_initial,  \* the vector plotted at line 95, if any
    final,          \* the object after the gates (line 152 / 231), or None
    bloch_final,    \* the vector plotted at line 152 / 231, if any
    exception       \* the exception that ended the run, "" for none

vars ==
    <<input, mode, gate, angle, custom_matrix, button, gate_sequence,
      state, errors, bloch_initial, final, bloch_final, exception>>

\* All variables after a run.
Rerun(inp, m, g, a, texts, btn) ==
    \E r \in {Run(inp, m, g, a, texts, btn, gate_sequence)} :
        /\ input' = inp
        /\ mode' = r.mode
        /\ gate' = g
        /\ angle' = a
        /\ button' = btn
        /\ custom_matrix' = r.custom_matrix
        /\ gate_sequence' = r.gate_sequence
        /\ state' = r.state
        /\ errors' = r.errors
        /\ bloch_initial' = r.bloch_initial
        /\ final' = r.final
        /\ bloch_final' = r.bloch_final
        /\ exception' = r.exception

(***************************************************************************)
(* What the model lets the user enter.                                     *)
(***************************************************************************)
MaxSeq == 2

DefaultCustom == <<"1", "0", "0", "1">>
SwapTexts == <<"0", "1", "1", "0">>
ShearTexts == <<"1", "1", "0", "1">>
CustomTexts ==
    {DefaultCustom, SwapTexts, <<"1", "0", "0", "1j">>, ShearTexts,
     <<"1", "0", "0", "abc">>}
Angles == {-1, 0, 1, 2}

\* a gate selection: rotations carry an angle, Custom Unitary its texts
Selections ==
    {<<g, 0, DefaultCustom>> : g \in FixedGates}
        \cup {<<g, a, DefaultCustom>> : g \in Rotations, a \in Angles}
        \cup {<<"Custom Unitary", 0, t>> : t \in CustomTexts}

Amplitudes ==
    {DefaultAmp, <<0, 0, 0, 0>>, <<3, 0, 0, 4>>, <<1, 1, 1, -1>>}
MixedRho == <<"0.75", "0.25j", "-0.25j", "0.25">>
NegativeRho == <<"1.5", "0", "0", "-0.5">>
MalformedRho == <<"0.5", "abc", "0.5", "0.5">>
RhoTexts ==
    {DefaultRho, <<"0.5", "0", "0", "0.5">>, MixedRho, NegativeRho,
     <<"0.5", "0", "5", "0.5">>, MalformedRho}
Inputs ==
    {Predefined(l) : l \in Labels}
        \cup {CustomPure(amp) : amp \in Amplitudes}
        \cup {DensityInput(rho) : rho \in RhoTexts}

Modes == {"Test Single Gate", "Test Gate Sequence"}

\* the smaller choice offered while whole sessions are explored
SessionSelections ==
    {<<"X", 0, DefaultCustom>>, <<"H", 0, DefaultCustom>>,
     <<"RZ", 1, DefaultCustom>>, <<"Custom Unitary", 0, SwapTexts>>,
     <<"Custom Unitary", 0, ShearTexts>>}
SessionInputs ==
    {Predefined("|0>"), Predefined("|+>"), Predefined("|i>"),
     CustomPure(<<0, 0, 0, 0>>), CustomPure(<<3, 0, 0, 4>>),
     DensityInput(DefaultRho), DensityInput(MixedRho),
     DensityInput(NegativeRho), DensityInput(MalformedRho)}

\* the texts offered for each field of the density matrix
RhoFieldTexts ==
    <<{"0.5", "1", "1.00001", "1.00002", "1.5"},
      {"0.5", "0", "0.5j", "0.25"},
      {"0.5", "0", "-0.5j", "0.250001", "5", "abc"},
      {"0.5", "0", "-0.00001", "-0.5"}>>

(***************************************************************************)
(* ACTIONS: one per user interaction, each a complete run.  The gate       *)
(* widgets matter to a run only through "Apply Gate" and "Add Gate"; a     *)
(* run without either is taken with them at their defaults.                *)
(***************************************************************************)
\* The session starts with every widget at its default.
Init ==
    \E r \in {Run(Predefined("|0>"), "Test Single Gate", "X", 0,
                  DefaultCustom, "", <<>>)} :
        /\ input = Predefined("|0>")
        /\ mode = "Test Single Gate"
        /\ gate = "X"
        /\ angle = 0
        /\ button = ""
        /\ custom_matrix = r.custom_matrix
        /\ gate_sequence = r.gate_sequence
        /\ state = r.state
        /\ errors = r.errors
        /\ bloch_initial = r.bloch_initial
        /\ final = r.final
        /\ bloch_final = r.bloch_final
        /\ exception = r.exception

\* The user edits the Step 1 widgets.
SetInput(inp) == Rerun(inp, mode, "X", 0, DefaultCustom, "")

\* The user picks "Density Matrix": the four fields show their defaults.
SelectDensityMatrix ==
    /\ input.input_type # "Density Matrix"
    /\ SetInput(DensityInput(DefaultRho))

\* The user retypes field k of the density matrix.
EditRho(k, t) ==
    /\ input.input_type = "Density Matrix"
    /\ SetInput(DensityInput([input.rho EXCEPT ![k] = t]))

\* The user flips the mode radio (shown only under a state).
SetMode(m) ==
    /\ state # None
    /\ Rerun(input, m, "X", 0, DefaultCustom, "")

\* The user selects a gate and presses "Apply Gate".
ApplyGate(sel) ==
    /\ state # None
    /\ mode = "Test Single Gate"
    /\ Rerun(input, mode, sel[1], sel[2], sel[3], "Apply Gate")

\* The user selects a gate and presses "Add Gate".
AddGate(sel) ==
    /\ state # None
    /\ mode = "Test Gate Sequence"
    /\ Rerun(input, mode, sel[1], sel[2], sel[3], "Add Gate")

UndoLastGate ==
    /\ state # None
    /\ mode = "Test Gate Sequence"
    /\ Rerun(input, mode, "X", 0, DefaultCustom, "Undo Last Gate")

ClearGateSequence ==
    /\ state # None
    /\ mode = "Test Gate Sequence"
    /\ Rerun(input, mode, "X", 0, DefaultCustom, "Clear Gate Sequence")

(***************************************************************************)
(* Spec: whole sessions, sequences up to MaxSeq entries.                   *)
(***************************************************************************)
Next ==
    \/ \E inp \in SessionInputs : SetInput(inp)
    \/ \E m \in Modes : SetMode(m)
    \/ \E sel \in SessionSelections : ApplyGate(sel)
    \/ \E sel \in SessionSelections :
            Len(gate_sequence) < MaxSeq /\ AddGate(sel)
    \/ UndoLastGate
    \/ ClearGateSequence

Spec == Init /\ [][Next]_vars

(***************************************************************************)
(* SpecGates: every input and every gate selection, one gate at a time.    *)
(* The user sets the input and the mode up first and then presses          *)
(* buttons; the sequence holds at most one entry.                          *)
(***************************************************************************)
Untouched == gate_sequence = <<>> /\ button = ""

NextGates ==
    \/ \E inp \in Inputs : Untouched /\ SetInput(inp)
    \/ \E m \in Modes : Untouched /\ SetMode(m)
    \/ \E sel \in Selections : ApplyGate(sel)
    \/ \E sel \in Selections : gate_sequence = <<>> /\ AddGate(sel)
    \/ UndoLastGate
    \/ ClearGateSequence

SpecGates == Init /\ [][NextGates]_vars

(***************************************************************************)
(* SpecValidator: the density-matrix fields, retyped one at a time.        *)
(***************************************************************************)
NextValidator ==
    \/ SelectDensityMatrix
    \/ \E k \in 1..4 : \E t \in RhoFieldTexts[k] : EditRho(k, t)

SpecValidator == Init /\ [][NextValidator]_vars

(***************************************************************************)
(* PROPERTIES.                                                             *)
(***************************************************************************)
XX == <<<<"X", PNone>>, <<"X", PNone>>>>

\* the matrix the density-matrix fields hold, when they parse
InputMatrix == ParseMatrix(input.rho)
IsDensityInput == input.input_type = "Density Matrix" /\ InputMatrix.ok

\* U(dagger) U = I within the unitarity check's tolerance
PassesUnitarity(m) == AllClose(MatMul(Dagger(m), m), Identity2)

WellFormedEntry(e) ==
    \/ e[1] \in FixedGates /\ e[2] = PNone
    \/ e[1] \in Rotations /\ e[2].t = "float"
    \/ e[1] = "Custom" /\ e[2].t = "ndarray" /\ PassesUnitarity(e[2].matrix)

\* C1: a Custom Unitary whose matrix fails the unitarity check or does not
\* parse is never appended by "Add Gate", so every entry of the sequence is
\* a fixed gate, a rotation with its angle, or a Custom entry with a matrix
\* that passed the unitarity check.
C1_RejectedCustomNeverAppended ==
    \A i \in 1..Len(gate_sequence) : WellFormedEntry(gate_sequence[i])

\* the input fails a check of its kind
InputRejected ==
    CASE input.input_type = "Predefined State" -> FALSE
      [] input.input_type = "Custom Pure State" ->
            \A i \in 1..4 : input.amp[i] = 0
      [] input.input_type = "Density Matrix" ->
            \/ ~InputMatrix.ok
            \/ ~is_hermitian(InputMatrix.m)
            \/ ~is_trace_one(InputMatrix.m)
            \/ ~is_positive_semidefinite(InputMatrix.m)

\* C2: the state is None exactly when the amplitude vector is zero, the
\* density-matrix input is malformed or one of the three checks fails; in
\* such a run nothing is projected, no gate is applied, and the stored
\* gate sequence is left as it was.
C2_InvalidStateNeverInstantiated ==
    /\ [](/\ state = None <=> InputRejected
          /\ state = None =>
                /\ bloch_initial = NoVector
                /\ final = None
                /\ bloch_final = NoVector
                /\ exception = "")
    /\ [][state' = None => gate_sequence' = gate_sequence]_vars

C2_Witness ==
    /\ state = None
    /\ gate_sequence # <<>>
    /\ errors = {"Matrix is not positive semi-definite"}

\* |x| and x^2 of a wide decimal
DAbs(x) == [x EXCEPT !.s = x.s * x.s]
DSq(x) == DMul(x, x)

\* Both eigenvalues of the matrix are real and at least floor: with
\* tau = trace - 2*floor and delta = det - floor*trace + floor^2 (the
\* trace and determinant of matrix - floor*I), tau and delta are real,
\* tau >= 0, delta >= 0 and tau^2 >= 4*delta.
EigenvaluesAtLeast(matrix, floor) ==
    LET a == matrix[1][1]
        b == matrix[1][2]
        c == matrix[2][1]
        d == matrix[2][2]
        trRe == DAdd(DRe(a), DRe(d))
        trIm == DAdd(DIm(a), DIm(d))
        detRe == DSub(DSub(DMul(DRe(a), DRe(d)), DMul(DIm(a), DIm(d))),
                      DSub(DMul(DRe(b), DRe(c)), DMul(DIm(b), DIm(c))))
        detIm == DSub(DAdd(DMul(DRe(a), DIm(d)), DMul(DIm(a), DRe(d))),
                      DAdd(DMul(DRe(b), DIm(c)), DMul(DIm(b), DRe(c))))
        tau == DSub(trRe, DMul(Dec(2, 0), floor))
        delta == DAdd(DSub(detRe, DMul(floor, trRe)), DSq(floor))
    IN  /\ trIm.s = 0
        /\ detIm.s = 0
        /\ tau.s >= 0
        /\ delta.s >= 0
        /\ DLeq(DMul(Dec(4, 0), delta), DSq(tau))

ViolatedConstraints(matrix) ==
    (IF ~is_hermitian(matrix) THEN {"Matrix is not Hermitian"} ELSE {})
        \cup (IF ~is_trace_one(matrix) THEN {"Trace is not 1"} ELSE {})
        \cup (IF ~EigenvaluesAtLeast(matrix, Dec(-1, 10))
              THEN {"Matrix is not positive semi-definite"} ELSE {})

\* C3: for every matrix typed into the density-matrix fields the errors
\* reported are exactly the constraints the matrix violates (Hermitian,
\* trace 1, all eigenvalues non-negative), and the state is built exactly
\* when there is none.
C3_ErrorsAreTheViolatedConstraints ==
    IsDensityInput =>
        /\ errors = ViolatedConstraints(InputMatrix.m)
        /\ state # None <=> errors = {}

\* C4: "Add Gate" appends one entry and leaves the others in place, so
\* that undoing its result gives back the sequence it started from;
\* "Undo Last Gate" removes the last entry and only that.
C4_UndoRestoresSequence ==
    [][/\ button' = "Add Gate" =>
            /\ Len(gate_sequence') = Len(gate_sequence) + 1
            /\ SubSeq(gate_sequence', 1, Len(gate_sequence)) = gate_sequence
            /\ UndoLast(gate_sequence') = gate_sequence
       /\ button' = "Undo Last Gate" =>
            gate_sequence' =
                SubSeq(gate_sequence, 1,
                       IF gate_sequence = <<>> THEN 0
                       ELSE Len(gate_sequence) - 1)]_vars

C4_Witness ==
    /\ button = "Undo Last Gate"
    /\ Len(gate_sequence) = 1
    /\ gate_sequence[1][1] = "Custom"

\* apply(gn, ... apply(g1, initial) ...)
RECURSIVE NestedApply(_, _)
NestedApply(st, seq) ==
    IF seq = <<>> THEN Outcome(st, "")
    ELSE LoopBody(NestedApply(st, SubSeq(seq, 1, Len(seq) - 1)),
                  seq[Len(seq)])

\* C5: the final state of sequence mode is the fold of single-gate
\* application over the sequence in index order, the first entry appended
\* being applied first: apply(gn, ... apply(g1, initial) ...).
C5_SequenceIsLeftFold ==
    (state # None /\ mode = "Test Gate Sequence") =>
        Outcome(final, exception) =
            Plotted(NestedApply(state, gate_sequence))

C5_Witness ==
    /\ mode = "Test Gate Sequence"
    /\ Len(gate_sequence) = 2
    /\ exception = ""
    /\ final # ApplyReversed(state, gate_sequence).val

\* the matrix of the selected gate, where the selection has one
HasGateMatrix == gate # "Custom Unitary" \/ custom_matrix # PNone
GateMatrix ==
    IF gate = "Custom Unitary" THEN custom_matrix.matrix
    ELSE SingleCircuit(gate, angle, custom_matrix).u

\* C6: applying a gate with matrix U, in either mode and for every gate
\* variant, a validated Custom gate included, yields a state of the same
\* kind as the initial one, U*(a, b) or U*rho*U(dagger), which the Bloch
\* projector maps to a 3-vector.
C6_EvolutionYieldsState ==
    (/\ state # None
     /\ HasGateMatrix
     /\ \/ button = "Apply Gate"
        \/ button = "Add Gate" /\ Len(gate_sequence) = 1) =>
        /\ final = evolve(state, GateMatrix)
        /\ exception = ""
        /\ Len(bloch_final) = 3

\* C7: the sequence [X, X] on a pure state returns the original state.
C7_XTwiceIsIdentity ==
    (/\ state.kind = "Statevector"
     /\ mode = "Test Gate Sequence"
     /\ gate_sequence = XX) =>
        final = state /\ exception = ""

C7_Witness ==
    /\ state.kind = "Statevector"
    /\ mode = "Test Gate Sequence"
    /\ gate_sequence = XX
    /\ state.data[1] # state.data[2]
    /\ final = state

\* x^2 + y^2 + z^2 of the plotted initial vector
BlochNormSq ==
    DAdd(DAdd(DSq(DRe(bloch_initial[1])), DSq(DRe(bloch_initial[2]))),
         DSq(DRe(bloch_initial[3])))

\* Hermitian, trace 1 and eigenvalues >= 0 with no tolerance at all
ExactlyValid(matrix) ==
    /\ matrix = Dagger(matrix)
    /\ trace(matrix) = One
    /\ EigvalshAllAtLeast(matrix, Dec(0, 0))

\* C8 as stated: the Bloch vector of every accepted density matrix has
\* x^2 + y^2 + z^2 <= 1.
C8_BlochNormAtMostOne ==
    state.kind = "DensityMatrix" => DLeq(BlochNormSq, Dec(1, 0))

\* C8 amended: the Bloch vector of every accepted density matrix has
\* x^2 + y^2 + z^2 <= 1.0001, and <= 1 when the matrix meets the three
\* constraints exactly.
C8_BlochNormWithinTolerance ==
    state.kind = "DensityMatrix" =>
        /\ DLeq(BlochNormSq, Dec(10001, 4))
        /\ ExactlyValid(state.data) => DLeq(BlochNormSq, Dec(1, 0))

C8_Witness ==
    /\ state.kind = "DensityMatrix"
    /\ DLess(Dec(1, 0), BlochNormSq)

\* |trace - 1| > tol, for tol given by its square
TraceOffBy(matrix, tolSq) == DLess(tolSq, DAbsSq(NSub(trace(matrix), One)))

\* some entry differs from the matching entry y of the conjugate
\* transpose by more than absTol + relTol * (|Re y| + |Im y|)
EntryOffBy(matrix, absTol, relTol) ==
    \E i \in 1..2 : \E j \in 1..2 :
        LET y == NConj(matrix[j][i])
            bound == DAdd(absTol,
                          DMul(relTol, DAdd(DAbs(DRe(y)), DAbs(DIm(y)))))
        IN  DLess(DSq(bound), DAbsSq(NSub(matrix[i][j], y)))

C10_ModesAgree ==
    /\ (/\ state # None
        /\ button = "Add Gate"
        /\ Len(gate_sequence) = 1) =>
            Outcome(final, exception) =
                Plotted(ApplySingle(state, gate, angle, custom_matrix))
    /\ (state # None /\ button = "Apply Gate") =>
            Outcome(final, exception) =
                Plotted(ApplySequence(state,
                            <<NewEntry(gate, angle, custom_matrix)>>))

C10_Witness ==
    /\ state.kind = "DensityMatrix"
    /\ button = "Add Gate"
    /\ gate = "Sdg"
    /\ Len(gate_sequence) = 1
    /\ final # state

=============================================================================
